---- MODULE Spec2Model ----
(***************************************************************************)
(* NLP Trending Topics Report Generator (src/app.py).                      *)
(*                                                                         *)
(* Text is a sequence of Unicode code points (integers).  A Python value   *)
(* is a record [t, s, n]: t is its type, s its code points when it is a    *)
(* str, n its value when it is an int or a float (floats of the model are  *)
(* whole numbers).                                                         *)
(***************************************************************************)
EXTENDS Integers, Sequences, FiniteSets, TLC

VARIABLES
    san,        \* one exercise of sanitize_text: argument, result, result of re-applying
    disk,       \* the two CSV files: [A, B], each [ok, rows]
    cache,      \* st.cache_data entry of load_data: [full, df, word_freq]
    file,       \* the output file BEST_ASCII_SAFE_NLP_REPORT.pdf: [exists, owner, complete]
    pc,         \* per session: where its script run stands
    clicked,    \* per session: what st.button returns in this run
    ui,         \* per session: the elements this run has put on the page, in order
    df,         \* per session: the script's df
    word_freq,  \* per session: the script's word_freq
    pdf,        \* per session: the PDF object under construction
    run         \* per session: [loads, loadFailed, wrote, offered] of this run

vars == << san, disk, cache, file, pc, clicked, ui, df, word_freq, pdf, run >>

mainVars == << disk, cache, file, pc, clicked, ui, df, word_freq, pdf, run >>

----------------------------------------------------------------------------
(* Python values *)

StrVal(s) == [t |-> "str", s |-> s, n |-> 0]
IntVal(n) == [t |-> "int", s |-> << >>, n |-> n]
FloatVal(n) == [t |-> "float", s |-> << >>, n |-> n]
NanVal == [t |-> "nan", s |-> << >>, n |-> 0]
NoneVal == [t |-> "none", s |-> << >>, n |-> 0]
ListVal == [t |-> "list", s |-> << >>, n |-> 0]

\* the outcome of a call: a returned str, or a raised exception
Return(s) == [raised |-> FALSE, val |-> s]
Raise == [raised |-> TRUE, val |-> << >>]

isinstance_str(x) == x.t = "str"

----------------------------------------------------------------------------
(* TEXT SANITIZER *)

Rupee == 8377
EnDash == 8211
EmDash == 8212
RightSingleQuote == 8217
LeftSingleQuote == 8216
LeftDoubleQuote == 8220
RightDoubleQuote == 8221

\* a table that lost its left-single-quote entry
replacements_missing_entry ==
    << << Rupee, << 82, 115 >> >>,
       << EnDash, << 45 >> >>,
       << EmDash, << 45 >> >>,
       << RightSingleQuote, << 39 >> >>,
       << LeftDoubleQuote, << 34 >> >>,
       << RightDoubleQuote, << 34 >> >> >>

\* the dict of line 25, in insertion order: << key, replacement >>
replacements ==
    << << Rupee, << 82, 115 >> >>,
       << EnDash, << 45 >> >>,
       << EmDash, << 45 >> >>,
       << RightSingleQuote, << 39 >> >>,
       << LeftSingleQuote, << 39 >> >>,
       << LeftDoubleQuote, << 34 >> >>,
       << RightDoubleQuote, << 34 >> >> >>

\* str.replace(k, v) for a one-character k: every occurrence is replaced, the
\* rest kept in order (evaluated by halves to keep the evaluation shallow)
RECURSIVE Replace(_, _, _)
Replace(text, k, v) ==
    IF Len(text) = 0 THEN << >>
    ELSE IF Len(text) = 1 THEN (IF text[1] = k THEN v ELSE text)
    ELSE LET m == Len(text) \div 2
         IN  Replace(SubSeq(text, 1, m), k, v) \o Replace(SubSeq(text, m + 1, Len(text)), k, v)

\* for k, v in table.items(): text = text.replace(k, v), from entry i on
RECURSIVE ApplyReplacements(_, _, _)
ApplyReplacements(text, table, i) ==
    IF i > Len(table) THEN text
    ELSE ApplyReplacements(Replace(text, table[i][1], table[i][2]), table, i + 1)

\* UTF-8 bytes of one code point below 65536
Utf8Bytes(c) ==
    IF c < 128 THEN << c >>
    ELSE IF c < 2048 THEN << 192 + (c \div 64), 128 + (c % 64) >>
    ELSE << 224 + (c \div 4096), 128 + ((c \div 64) % 64), 128 + (c % 64) >>

\* text.encode("utf-8"): the bytes of every code point
RECURSIVE EncodeUtf8(_)
EncodeUtf8(text) ==
    IF Len(text) = 0 THEN << >>
    ELSE IF Len(text) = 1 THEN Utf8Bytes(text[1])
    ELSE LET m == Len(text) \div 2
         IN  EncodeUtf8(SubSeq(text, 1, m)) \o EncodeUtf8(SubSeq(text, m + 1, Len(text)))

\* an encoder that drops nothing
EncodeKeepAll(text) == text

\* text.encode("latin-1", "ignore"): one byte per code point <= 255, the rest dropped
Latin1EncodeIgnore(text) == SelectSeq(text, LAMBDA c : c <= 255)

\* bytes.decode("latin-1"): byte b is code point b
Latin1Decode(bytes) == [i \in 1..Len(bytes) |-> bytes[i]]

\* sanitize_text without its isinstance guard: str methods on a non-str raise
sanitize_text_noguard(text) ==
    IF ~isinstance_str(text) THEN Raise
    ELSE Return(Latin1Decode(Latin1EncodeIgnore(ApplyReplacements(text.s, replacements, 1))))

sanitize_text(text) ==
    IF ~isinstance_str(text) THEN Return(<< >>)
    ELSE Return(Latin1Decode(Latin1EncodeIgnore(ApplyReplacements(text.s, replacements, 1))))

----------------------------------------------------------------------------
(* Literal texts of the script, as code points *)

\* 'Trending Topics NLP Analysis Report'
HeaderTitle ==
    << 84, 114, 101, 110, 100, 105, 110, 103, 32, 84, 111, 112, 105, 99, 115, 32, 78, 76, 80,
       32, 65, 110, 97, 108, 121, 115, 105, 115, 32, 82, 101, 112, 111, 114, 116 >>

\* 'NLP Based Trending Topics Report'
CoverTitle ==
    << 78, 76, 80, 32, 66, 97, 115, 101, 100, 32, 84, 114, 101, 110, 100, 105, 110, 103, 32,
       84, 111, 112, 105, 99, 115, 32, 82, 101, 112, 111, 114, 116 >>

\* 'This report presents an end to end Natural Language Processing analysis of trending news data using API based collection, TF IDF analysis, and statistical techniques.'
CoverParagraph ==
    << 84, 104, 105, 115, 32, 114, 101, 112, 111, 114, 116, 32, 112, 114, 101, 115, 101, 110,
       116, 115, 32, 97, 110, 32, 101, 110, 100, 32, 116, 111, 32, 101, 110, 100, 32, 78, 97,
       116, 117, 114, 97, 108, 32, 76, 97, 110, 103, 117, 97, 103, 101, 32, 80, 114, 111, 99,
       101, 115, 115, 105, 110, 103, 32, 97, 110, 97, 108, 121, 115, 105, 115, 32, 111, 102,
       32, 116, 114, 101, 110, 100, 105, 110, 103, 32, 110, 101, 119, 115, 32, 100, 97, 116,
       97, 32, 117, 115, 105, 110, 103, 32, 65, 80, 73, 32, 98, 97, 115, 101, 100, 32, 99, 111,
       108, 108, 101, 99, 116, 105, 111, 110, 44, 32, 84, 70, 32, 73, 68, 70, 32, 97, 110, 97,
       108, 121, 115, 105, 115, 44, 32, 97, 110, 100, 32, 115, 116, 97, 116, 105, 115, 116,
       105, 99, 97, 108, 32, 116, 101, 99, 104, 110, 105, 113, 117, 101, 115, 46 >>

\* 'Executive Summary'
SummaryHeading ==
    << 69, 120, 101, 99, 117, 116, 105, 118, 101, 32, 83, 117, 109, 109, 97, 114, 121 >>

\* '- Total articles analyzed: '
SummaryPrefix ==
    << 45, 32, 84, 111, 116, 97, 108, 32, 97, 114, 116, 105, 99, 108, 101, 115, 32, 97, 110,
       97, 108, 121, 122, 101, 100, 58, 32 >>

\* '\n- Finance, sports, and global news dominate trends\n- TF IDF highlights article specific relevance'
SummaryRest ==
    << 10, 45, 32, 70, 105, 110, 97, 110, 99, 101, 44, 32, 115, 112, 111, 114, 116, 115, 44,
       32, 97, 110, 100, 32, 103, 108, 111, 98, 97, 108, 32, 110, 101, 119, 115, 32, 100, 111,
       109, 105, 110, 97, 116, 101, 32, 116, 114, 101, 110, 100, 115, 10, 45, 32, 84, 70, 32,
       73, 68, 70, 32, 104, 105, 103, 104, 108, 105, 103, 104, 116, 115, 32, 97, 114, 116, 105,
       99, 108, 101, 32, 115, 112, 101, 99, 105, 102, 105, 99, 32, 114, 101, 108, 101, 118, 97,
       110, 99, 101 >>

\* 'Word Frequency Analysis'
WordFreqHeading ==
    << 87, 111, 114, 100, 32, 70, 114, 101, 113, 117, 101, 110, 99, 121, 32, 65, 110, 97, 108,
       121, 115, 105, 115 >>

\* 'Word'
ColWord ==
    << 87, 111, 114, 100 >>

\* 'Frequency'
ColFrequency ==
    << 70, 114, 101, 113, 117, 101, 110, 99, 121 >>

\* 'Appendix: Top Headlines'
AppendixHeading ==
    << 65, 112, 112, 101, 110, 100, 105, 120, 58, 32, 84, 111, 112, 32, 72, 101, 97, 100, 108,
       105, 110, 101, 115 >>

\* '- '
BulletPrefix ==
    << 45, 32 >>

\* 'Page '
PagePrefix ==
    << 80, 97, 103, 101, 32 >>

\* 'nan'
NanStr ==
    << 110, 97, 110 >>

\* 'None'
NoneStr ==
    << 78, 111, 110, 101 >>

\* '[]'
ListStr ==
    << 91, 93 >>

\* the decimal digits of a non-negative int
RECURSIVE DecStr(_)
DecStr(n) == IF n < 10 THEN << 48 + n >> ELSE DecStr(n \div 10) \o << 48 + (n % 10) >>

\* str(n) of an int: a minus sign for a negative one, then the digits
SignedDec(n) == IF n < 0 THEN << 45 >> \o DecStr(0 - n) ELSE DecStr(n)

\* str(v): an int as its digits, a whole float with ".0", NaN as "nan", a str as
\* itself, None as "None", the empty list as "[]"
Str(v) ==
    IF v.t = "int" THEN SignedDec(v.n)
    ELSE IF v.t = "float" THEN SignedDec(v.n) \o << 46, 48 >>
    ELSE IF v.t = "str" THEN v.s
    ELSE IF v.t = "nan" THEN NanStr
    ELSE IF v.t = "none" THEN NoneStr
    ELSE ListStr

----------------------------------------------------------------------------
(* The page-layout engine as the script drives it.  Lengths are millimetres, *)
(* glyph widths thousandths of the font size.  Horizontal position is not    *)
(* tracked.                                                                  *)

PageHeight == 297
PageWidth == 210
Margin == 10
CellMargin == 1
BottomMargin == 15
HeaderHeight == 10
UsableWidth == PageWidth - Margin - Margin
PageBreakTrigger == PageHeight - BottomMargin

NewPDF == [page |-> 0, y |-> 0, lasth |-> 0, size |-> 0, ops |-> << >>, err |-> "none"]

Failed(p) == p.err # "none"

\* an exception raised inside the handler
Fail(p, exception) == IF Failed(p) THEN p ELSE [p EXCEPT !.err = exception]

DrawOp(kind, by, role, text, sanitized, page) ==
    [op |-> kind, by |-> by, role |-> role, text |-> text, san |-> sanitized,
     page |-> page, auto |-> FALSE, ok |-> TRUE]

\* a text handed to a draw operation that raised instead of drawing it
Rejected(p, kind, by, role, text, sanitized) ==
    [p EXCEPT !.err = "encoding",
              !.ops = Append(@, [DrawOp(kind, by, role, text, sanitized, p.page)
                                    EXCEPT !.ok = FALSE])]

PageOp(by, auto, page) ==
    [op |-> "add_page", by |-> by, role |-> "page", text |-> << >>, san |-> FALSE,
     page |-> page, auto |-> auto, ok |-> TRUE]

\* the core fonts encode text as Latin-1: any other character raises
Encodable(text) == \A i \in 1..Len(text) : text[i] <= 255

SetFont(p, size) == IF Failed(p) THEN p ELSE [p EXCEPT !.size = size]

\* PDF.header: set_font(Helvetica, B, 11), the running title in a cell of height
\* 10, then down one line
Header(p) ==
    [p EXCEPT !.size = 11,
              !.ops = Append(@, DrawOp("cell", "header", "running", HeaderTitle, FALSE, p.page)),
              !.y = p.y + HeaderHeight,
              !.lasth = HeaderHeight]

\* PDF.footer: set_y(-15), set_font(Helvetica, size=8), "Page n" in a cell of
\* height 10
Footer(p) ==
    [p EXCEPT !.y = PageHeight - 15,
              !.size = 8,
              !.ops = Append(@, DrawOp("cell", "footer", "pageno",
                                       PagePrefix \o DecStr(p.page), FALSE, p.page)),
              !.lasth = 10]

\* add_page: close the current page with its footer, open the next with its
\* header, then select again the font that was selected before, if any
AddPage(p, by, auto) ==
    IF Failed(p) THEN p
    ELSE LET closed == IF p.page > 0 THEN Footer(p) ELSE p
             opened == [closed EXCEPT !.page = @ + 1, !.y = Margin,
                                      !.ops = Append(@, PageOp(by, auto, closed.page + 1))]
             headed == Header(opened)
         IN  IF p.size > 0 THEN [headed EXCEPT !.size = p.size] ELSE headed

\* automatic page break before content of height h that would cross the trigger
BreakIfNeeded(p, h, by) ==
    IF p.y + h > PageBreakTrigger THEN AddPage(p, by, TRUE) ELSE p

\* cell(w, h, text): one line of text; nexty says new_y = YPos.NEXT
Cell(p, h, text, sanitized, nexty, by, role) ==
    IF Failed(p) THEN p
    ELSE IF ~Encodable(text) THEN Rejected(p, "cell", by, role, text, sanitized)
    ELSE LET q == BreakIfNeeded(p, h, by)
         IN  [q EXCEPT !.ops = Append(@, DrawOp("cell", by, role, text, sanitized, q.page)),
                       !.y = IF nexty THEN q.y + h ELSE q.y,
                       !.lasth = h]

\* ln(h): down by h
Ln(p, h) == IF Failed(p) THEN p ELSE [p EXCEPT !.y = @ + h]

\* ln(): down by the height of the last cell
LnLast(p) == Ln(p, p.lasth)

\* Helvetica advance widths of the characters 32..126
AsciiWidths ==
    << 278, 278, 355, 556, 556, 889, 667, 191, 333, 333, 389, 584, 278, 333, 278, 278,
       556, 556, 556, 556, 556, 556, 556, 556, 556, 556, 278, 278, 584, 584, 584, 556,
       1015, 667, 667, 722, 722, 667, 611, 778, 722, 278, 500, 667, 556, 833, 722, 778,
       667, 778, 722, 667, 611, 722, 667, 944, 667, 667, 611, 278, 278, 278, 469, 556,
       333, 556, 556, 500, 556, 556, 278, 556, 556, 222, 222, 500, 222, 833, 556, 556,
       556, 556, 333, 500, 278, 556, 500, 722, 500, 500, 500, 334, 260, 334, 584 >>

\* Helvetica advance widths of the characters 160..255
Latin1Widths ==
    << 278, 333, 556, 556, 556, 556, 260, 556, 333, 737, 370, 556, 584, 333, 737, 333,
       400, 584, 333, 333, 333, 556, 537, 278, 333, 333, 365, 556, 834, 834, 834, 611,
       667, 667, 667, 667, 667, 667, 1000, 722, 667, 667, 667, 667, 278, 278, 278, 278,
       722, 722, 778, 778, 778, 778, 778, 584, 778, 722, 722, 722, 722, 667, 667, 611,
       556, 556, 556, 556, 556, 556, 889, 500, 556, 556, 556, 556, 278, 278, 278, 278,
       556, 556, 556, 556, 556, 556, 556, 584, 611, 556, 556, 556, 556, 500, 556, 500 >>

\* Helvetica advance widths of the characters 127..159
HighControlWidths ==
    << 350, 556, 350, 222, 556, 333, 1000, 556, 556, 333, 1000, 667, 333, 1000, 350, 611,
       350, 350, 222, 222, 333, 333, 350, 556, 1000, 333, 1000, 500, 333, 944, 350, 500,
       667 >>

\* the advance width of one character of the selected font (regular Helvetica
\* for every wrapped text of the script); the characters 0..31 take 278
GlyphWidth(c) ==
    IF c >= 32 /\ c <= 126 THEN AsciiWidths[c - 31]
    ELSE IF c >= 160 /\ c <= 255 THEN Latin1Widths[c - 159]
    ELSE IF c >= 127 /\ c <= 159 THEN HighControlWidths[c - 126]
    ELSE 278

\* cumulative advance widths: entry k is the width of the first k characters
RECURSIVE PrefixWidths(_)
PrefixWidths(text) ==
    IF Len(text) = 0 THEN << >>
    ELSE IF Len(text) = 1 THEN << GlyphWidth(text[1]) >>
    ELSE LET m == Len(text) \div 2
             left == PrefixWidths(SubSeq(text, 1, m))
             right == PrefixWidths(SubSeq(text, m + 1, Len(text)))
         IN  left \o [i \in 1..Len(right) |-> right[i] + left[m]]

\* whether a run of glyphs fits the cell: its width in mm, units * size / 1000
\* points of 25.4/72 mm, against the cell width less the two cell margins
FitsLine(units, size) == units * size * 254 <= (UsableWidth - 2 * CellMargin) * 720000

\* the number of lines from character `start` on.  A line takes the characters
\* that fit, up to a newline; when the next character does not fit, the line
\* ends at that character if it is a space (the space is dropped), else after
\* the last space of the line, else before the character.  A newline that ends
\* the text leaves one blank line.  Texts hold no soft hyphen (173), which the
\* engine would treat as a further break point.
RECURSIVE LinesFrom(_, _, _, _, _)
LinesFrom(text, widths, start, size, blank) ==
    IF start > Len(text) THEN (IF blank THEN 1 ELSE 0)
    ELSE LET newlines == { i \in start..Len(text) : text[i] = 10 }
             stop == IF newlines = { } THEN Len(text) + 1
                     ELSE CHOOSE i \in newlines : \A j \in newlines : i <= j
             base == IF start = 1 THEN 0 ELSE widths[start - 1]
             fit == start - 1
                    + Cardinality({ e \in start..(stop - 1) :
                                       FitsLine(widths[e] - base, size) })
             spaces == { i \in start..fit : text[i] = 32 }
         IN  IF fit = stop - 1
             THEN (IF stop > Len(text) THEN 1
                   ELSE 1 + LinesFrom(text, widths, stop + 1, size, TRUE))
             ELSE IF text[fit + 1] = 32
             THEN 1 + LinesFrom(text, widths, fit + 2, size, FALSE)
             ELSE IF spaces # { }
             THEN 1 + LinesFrom(text, widths,
                                (CHOOSE i \in spaces : \A j \in spaces : j <= i) + 1,
                                size, FALSE)
             ELSE 1 + LinesFrom(text, widths, (IF fit < start THEN start ELSE fit) + 1,
                                size, FALSE)

\* the number of lines a text block takes at a font size; an empty text takes one
CountLines(text, size) ==
    IF text = << >> THEN 1 ELSE LinesFrom(text, PrefixWidths(text), 1, size, FALSE)

\* n lines of height h, each checked against the page break trigger
RECURSIVE PlaceLines(_, _, _, _)
PlaceLines(p, h, n, by) ==
    IF n = 0 THEN p
    ELSE LET q == BreakIfNeeded(p, h, by)
         IN  PlaceLines([q EXCEPT !.y = @ + h], h, n - 1, by)

\* multi_cell(usable_width, h, text): a wrapped text block
MultiCell(p, h, text, sanitized, by, role) ==
    IF Failed(p) THEN p
    ELSE IF ~Encodable(text) THEN Rejected(p, "multi_cell", by, role, text, sanitized)
    ELSE LET q == BreakIfNeeded(p, h, by)
             r == [q EXCEPT !.ops = Append(@, DrawOp("multi_cell", by, role, text,
                                                     sanitized, q.page)),
                            !.lasth = h]
         IN  PlaceLines(r, h, CountLines(text, p.size), by)

\* multi_cell(usable_width, h, prefix + sanitize_text(v))
MultiCellSanitized(p, h, prefix, v, by, role) ==
    LET r == sanitize_text(v)
    IN  IF Failed(p) THEN p
        ELSE IF r.raised THEN Fail(p, "AttributeError")
        ELSE MultiCell(p, h, prefix \o r.val, TRUE, by, role)

\* cell(w, h, sanitize_text(v))
CellSanitized(p, h, v, by, role) ==
    LET r == sanitize_text(v)
    IN  IF Failed(p) THEN p
        ELSE IF r.raised THEN Fail(p, "AttributeError")
        ELSE Cell(p, h, r.val, TRUE, FALSE, by, role)

----------------------------------------------------------------------------
(* pandas as the script uses it.  A CSV file is a header (the column names)   *)
(* and rows of cells; a cell is its text, the empty text for a missing value. *)
(* Cells of the model are integer literals, empty, or text that is no number. *)

Digits == 48..57

\* the cell reads as an integer: an optional minus sign, then digits
IsIntLiteral(cell) ==
    /\ Len(cell) > 0
    /\ LET body == IF cell[1] = 45 THEN Tail(cell) ELSE cell
       IN  Len(body) > 0 /\ \A i \in 1..Len(body) : body[i] \in Digits

RECURSIVE ParseDigits(_)
ParseDigits(d) ==
    IF d = << >> THEN 0
    ELSE 10 * ParseDigits(SubSeq(d, 1, Len(d) - 1)) + (d[Len(d)] - 48)

ParseInt(cell) == IF cell[1] = 45 THEN 0 - ParseDigits(Tail(cell)) ELSE ParseDigits(cell)

\* the dtype read_csv infers for a column: int64 when every cell is an integer,
\* float64 when the others are missing, object otherwise (and with no rows)
ColumnDtype(csv, c) ==
    IF Len(csv.rows) = 0 THEN "object"
    ELSE IF \A i \in 1..Len(csv.rows) : IsIntLiteral(csv.rows[i][c]) THEN "int64"
    ELSE IF \A i \in 1..Len(csv.rows) :
               IsIntLiteral(csv.rows[i][c]) \/ csv.rows[i][c] = << >> THEN "float64"
    ELSE "object"

\* a cell as a value of its column's dtype
TypedCell(cell, dtype) ==
    IF dtype = "int64" THEN IntVal(ParseInt(cell))
    ELSE IF cell = << >> THEN NanVal
    ELSE IF dtype = "float64" THEN FloatVal(ParseInt(cell))
    ELSE StrVal(cell)

\* pd.read_csv of a readable file: [columns, dtype, rows]
read_csv(csv) ==
    LET dtype == [c \in csv.columns |-> ColumnDtype(csv, c)]
    IN  [columns |-> csv.columns,
         dtype |-> dtype,
         rows |-> [i \in 1..Len(csv.rows) |->
                      [c \in csv.columns |-> TypedCell(csv.rows[i][c], dtype[c])]]]

EmptyFrame == [columns |-> { }, dtype |-> << >>, rows |-> << >>]

HeadCount == 20

Min(a, b) == IF a < b THEN a ELSE b

\* a head() that keeps one row too many
head_one_more(frame, n) ==
    [frame EXCEPT !.rows = SubSeq(frame.rows, 1, Min(n + 1, Len(frame.rows)))]

\* DataFrame.head(n): the first n rows, in order
head(frame, n) == [frame EXCEPT !.rows = SubSeq(frame.rows, 1, Min(n, Len(frame.rows)))]

\* row i as iterrows yields it: a Series of one dtype, so the ints of a frame
\* whose columns are all numeric and include a float64 column come as floats
IterRow(frame, i) ==
    LET numeric == \A c \in frame.columns : frame.dtype[c] \in { "int64", "float64" }
        anyFloat == \E c \in frame.columns : frame.dtype[c] = "float64"
        row == frame.rows[i]
    IN  IF numeric /\ anyFloat
        THEN [c \in frame.columns |->
                 IF row[c].t = "int" THEN FloatVal(row[c].n) ELSE row[c]]
        ELSE row

\* only the previewed rows' titles
Titles_head_only(frame) == [i \in 1..Min(5, Len(frame.rows)) |-> frame.rows[i].title]

\* df["title"]: the title of every row, in order (for a frame that has the column)
Titles(frame) == [i \in 1..Len(frame.rows) |-> frame.rows[i].title]

----------------------------------------------------------------------------
(* The four sections of the "Generate PDF" handler *)

\* -------- COVER --------
CoverSection(p) ==
    LET p1 == SetFont(AddPage(p, "cover", FALSE), 20)
        p2 == Cell(p1, 20, CoverTitle, FALSE, TRUE, "cover", "title")
        p3 == SetFont(Ln(p2, 10), 12)
    IN  MultiCellSanitized(p3, 8, << >>, StrVal(CoverParagraph), "cover", "paragraph")

\* -------- EXECUTIVE SUMMARY --------
SummarySection(p, frame) ==
    LET p1 == SetFont(AddPage(p, "summary", FALSE), 14)
        p2 == Cell(p1, 10, SummaryHeading, FALSE, TRUE, "summary", "title")
        p3 == SetFont(p2, 11)
    IN  MultiCellSanitized(p3, 7, << >>,
                           StrVal(SummaryPrefix \o DecStr(Len(frame.rows)) \o SummaryRest),
                           "summary", "paragraph")

\* for _, row in frame.iterrows(): the word cell, the frequency cell, ln();
\* row["word"] and row["frequency"] raise KeyError when the column is absent
RECURSIVE TableRows(_, _, _)
TableRows(p, frame, i) ==
    IF i > Len(frame.rows) \/ Failed(p) THEN p
    ELSE LET row == IterRow(frame, i)
             p1 == IF "word" \notin frame.columns THEN Fail(p, "KeyError")
                   ELSE CellSanitized(p, 8, row.word, "table", "word")
             p2 == IF Failed(p1) THEN p1
                   ELSE IF "frequency" \notin frame.columns THEN Fail(p1, "KeyError")
                   ELSE Cell(p1, 8, Str(row.frequency), FALSE, FALSE, "table", "frequency")
         IN  TableRows(LnLast(p2), frame, i + 1)

\* -------- WORD FREQUENCY --------
WordFrequencySection(p, frame) ==
    LET p1 == SetFont(AddPage(p, "table", FALSE), 14)
        p2 == Cell(p1, 10, WordFreqHeading, FALSE, TRUE, "table", "title")
        p3 == SetFont(Ln(p2, 5), 10)
        p4 == Cell(p3, 8, ColWord, FALSE, FALSE, "table", "colhead")
        p5 == Cell(p4, 8, ColFrequency, FALSE, FALSE, "table", "colhead")
        p6 == SetFont(LnLast(p5), 10)
    IN  TableRows(p6, head(frame, HeadCount), 1)

\* for title in titles: multi_cell(usable_width, 6, "- " + sanitize_text(title))
RECURSIVE AppendixEntries(_, _, _)
AppendixEntries(p, titles, i) ==
    IF i > Len(titles) \/ Failed(p) THEN p
    ELSE AppendixEntries(MultiCellSanitized(p, 6, BulletPrefix, titles[i], "appendix", "entry"),
                         titles, i + 1)

\* the appendix drawn on the word-frequency page
AppendixSection_no_page(p, frame) ==
    LET p1 == SetFont(p, 14)
        p2 == Cell(p1, 10, AppendixHeading, FALSE, TRUE, "appendix", "title")
        p3 == SetFont(p2, 10)
    IN  IF "title" \notin frame.columns THEN Fail(p3, "KeyError")
        ELSE AppendixEntries(p3, Titles(frame), 1)

\* -------- APPENDIX --------  df["title"] raises KeyError when the column is absent
AppendixSection(p, frame) ==
    LET p1 == SetFont(AddPage(p, "appendix", FALSE), 14)
        p2 == Cell(p1, 10, AppendixHeading, FALSE, TRUE, "appendix", "title")
        p3 == SetFont(p2, 10)
    IN  IF "title" \notin frame.columns THEN Fail(p3, "KeyError")
        ELSE AppendixEntries(p3, Titles(frame), 1)

----------------------------------------------------------------------------
(* Inputs: the contents of the two CSV files *)

MaxA == 43
MaxB == 22
LongTitleLen == 58

\* entries of height 6 that fit under the appendix heading before the trigger
FirstPageEntries == (PageBreakTrigger - (Margin + HeaderHeight + 10)) \div 6

\* a title of capital W that is wider than one line
LongTitle == [i \in 1..LongTitleLen |-> 87]

TitlePool == << << 97, EmDash, Rupee >>, << >>, << 20013, 26085 >>, << 233 >> >>

WordPool == << << LeftDoubleQuote, 97, RightDoubleQuote >>, << 20013 >>, << >>, << 119 >> >>

\* pattern 0, 1: text titles, one of them missing; 2: every fourth title long;
\* 3: titles that are all numbers
ARow(pat, i) ==
    [title |-> IF pat \in { 0, 1 } THEN TitlePool[((i + pat) % Len(TitlePool)) + 1]
               ELSE IF pat = 2 THEN (IF i % 4 = 0 THEN LongTitle ELSE << 97 >>)
               ELSE DecStr(i)]

\* pattern 0: integer frequencies, the first negative; 1: integers and missing
\* values; 2: a rupee sign in the frequency of the second record; 3: integer
\* frequencies and no word at all
BRow(pat, i) ==
    [word |-> IF pat = 3 THEN << >> ELSE WordPool[((i + pat) % Len(WordPool)) + 1],
     frequency |-> IF pat = 0 THEN (IF i = 1 THEN << 45, 53 >> ELSE DecStr(3 * i))
                   ELSE IF pat = 1 THEN (IF i % 3 = 1 THEN << >> ELSE DecStr(i + 5))
                   ELSE IF pat = 2 THEN (IF i = 2 THEN << Rupee, 53 >> ELSE DecStr(i))
                   ELSE DecStr(i)]

Readable(columns, rows) == [ok |-> TRUE, columns |-> columns, rows |-> rows]
Unreadable == [ok |-> FALSE, columns |-> { }, rows |-> << >>]

ATable(n, pat) == Readable({ "title" }, [i \in 1..n |-> ARow(pat, i)])
BTable(n, pat) == Readable({ "word", "frequency" }, [i \in 1..n |-> BRow(pat, i)])

ASizes == { 0, 1, 3, FirstPageEntries, MaxA - 1, MaxA }
BSizes == { 0, 1, 3, HeadCount, MaxB - 1, MaxB }

\* files that parse but lack a column the handler reads
ANoTitle == Readable({ "headline" }, << [headline |-> << 120 >>] >>)
BNoWord == Readable({ "term", "count" }, << [term |-> << 119 >>, count |-> << 49 >>] >>)
BNoFrequency == Readable({ "word" }, << [word |-> << 119 >>], [word |-> << 97 >>] >>)

Disks ==
    { [A |-> ATable(n, pat), B |-> BTable(3, 0)] : n \in ASizes, pat \in 0..3 }
    \cup { [A |-> ATable(3, 0), B |-> BTable(n, pat)] : n \in BSizes, pat \in 0..3 }
    \cup { [A |-> Unreadable, B |-> BTable(3, 0)],
           [A |-> ATable(3, 0), B |-> Unreadable],
           [A |-> Unreadable, B |-> Unreadable] }
    \cup { [A |-> ANoTitle, B |-> BTable(3, 0)],
           [A |-> ATable(3, 0), B |-> BNoWord],
           [A |-> ATable(3, 0), B |-> BNoFrequency] }

----------------------------------------------------------------------------
(* The script.  Every session runs it top to bottom on each interaction. *)

Sessions == { 1, 2 }

NoFile == [exists |-> FALSE, owner |-> 0, complete |-> FALSE]

NewRun == [loads |-> 0, loadFailed |-> FALSE, wrote |-> FALSE, offered |-> NoFile]

EmptyCache == [full |-> FALSE, df |-> EmptyFrame, word_freq |-> EmptyFrame]

Shown(s, element) == \E i \in 1..Len(ui[s]) : ui[s][i] = element

RunOver(s) == pc[s] \in { "idle", "done", "stopped", "crashed" }

MainInit ==
    /\ disk \in Disks
    /\ cache = EmptyCache
    /\ file = NoFile
    /\ pc = [s \in Sessions |-> "idle"]
    /\ clicked = [s \in Sessions |-> FALSE]
    /\ ui = [s \in Sessions |-> << >>]
    /\ df = [s \in Sessions |-> EmptyFrame]
    /\ word_freq = [s \in Sessions |-> EmptyFrame]
    /\ pdf = [s \in Sessions |-> NewPDF]
    /\ run = [s \in Sessions |-> NewRun]

\* a (re)run starts: page config, title, description.  The button reads as
\* pressed only if the previous run of the session displayed it.
StartRun(s) ==
    /\ RunOver(s)
    /\ \E click \in BOOLEAN :
          /\ click => Shown(s, "button")
          /\ clicked' = [clicked EXCEPT ![s] = click]
    /\ ui' = [ui EXCEPT ![s] = << "title", "write" >>]
    /\ df' = [df EXCEPT ![s] = EmptyFrame]
    /\ word_freq' = [word_freq EXCEPT ![s] = EmptyFrame]
    /\ pdf' = [pdf EXCEPT ![s] = NewPDF]
    /\ run' = [run EXCEPT ![s] = NewRun]
    /\ pc' = [pc EXCEPT ![s] = "load"]
    /\ UNCHANGED << san, disk, cache, file >>

\* try: df, word_freq = load_data()  except: st.error(...); st.stop()
\* load_data is cached: it reads the files only while the cache is empty, and a
\* failed read caches nothing.
LoadData(s) ==
    /\ pc[s] = "load"
    /\ IF cache.full
       THEN /\ df' = [df EXCEPT ![s] = cache.df]
            /\ word_freq' = [word_freq EXCEPT ![s] = cache.word_freq]
            /\ run' = [run EXCEPT ![s].loads = @ + 1]
            /\ pc' = [pc EXCEPT ![s] = "preview"]
            /\ UNCHANGED << cache, ui >>
       ELSE IF disk.A.ok /\ disk.B.ok
       THEN /\ cache' = [full |-> TRUE, df |-> read_csv(disk.A),
                         word_freq |-> read_csv(disk.B)]
            /\ df' = [df EXCEPT ![s] = read_csv(disk.A)]
            /\ word_freq' = [word_freq EXCEPT ![s] = read_csv(disk.B)]
            /\ run' = [run EXCEPT ![s].loads = @ + 1]
            /\ pc' = [pc EXCEPT ![s] = "preview"]
            /\ ui' = ui
       ELSE /\ run' = [run EXCEPT ![s].loads = @ + 1, ![s].loadFailed = TRUE]
            /\ ui' = [ui EXCEPT ![s] = Append(@, "error")]
            /\ pc' = [pc EXCEPT ![s] = "stopped"]
            /\ UNCHANGED << cache, df, word_freq >>
    /\ UNCHANGED << san, disk, file, clicked, pdf >>

\* the data preview, then the button; a pressed button enters the handler:
\* pdf = PDF(); set_auto_page_break(auto=True, margin=15)
Preview(s) ==
    /\ pc[s] = "preview"
    /\ ui' = [ui EXCEPT ![s] = @ \o << "subheader", "preview_df", "preview_word_freq",
                                       "subheader", "button" >>]
    /\ pc' = [pc EXCEPT ![s] = IF clicked[s] THEN "cover" ELSE "done"]
    /\ UNCHANGED << san, disk, cache, file, clicked, df, word_freq, pdf, run >>

\* one section of the handler; an exception ends the run with the traceback shown
Section(s, at, result, next) ==
    /\ pc[s] = at
    /\ pdf' = [pdf EXCEPT ![s] = result]
    /\ IF Failed(result)
       THEN /\ pc' = [pc EXCEPT ![s] = "crashed"]
            /\ ui' = [ui EXCEPT ![s] = Append(@, "exception")]
       ELSE /\ pc' = [pc EXCEPT ![s] = next]
            /\ ui' = ui
    /\ UNCHANGED << san, disk, cache, file, clicked, df, word_freq, run >>

Cover(s) == Section(s, "cover", CoverSection(pdf[s]), "summary")

Summary(s) == Section(s, "summary", SummarySection(pdf[s], df[s]), "table")

WordFrequency(s) == Section(s, "table", WordFrequencySection(pdf[s], word_freq[s]), "appendix")

Appendix(s) == Section(s, "appendix", AppendixSection(pdf[s], df[s]), "output")

\* pdf.output(pdf_path), first half: the last page gets its footer and the file
\* is opened for writing, which truncates it.  pdf_path is the same fixed name
\* in every session, so `file` is the one file they all write and read.
Output(s) ==
    /\ pc[s] = "output"
    /\ pdf' = [pdf EXCEPT ![s] = Footer(@)]
    /\ file' = [exists |-> TRUE, owner |-> s, complete |-> FALSE]
    /\ pc' = [pc EXCEPT ![s] = "writing"]
    /\ UNCHANGED << san, disk, cache, clicked, ui, df, word_freq, run >>

\* pdf.output(pdf_path), second half: the document's bytes are written and the
\* file closed
OutputWrite(s) ==
    /\ pc[s] = "writing"
    /\ file' = [exists |-> TRUE, owner |-> s, complete |-> TRUE]
    /\ run' = [run EXCEPT ![s].wrote = TRUE]
    /\ pc' = [pc EXCEPT ![s] = "saved"]
    /\ UNCHANGED << san, disk, cache, clicked, ui, df, word_freq, pdf >>

\* st.success(...); with open(pdf_path, "rb") as f: st.download_button(data=f)
\* The button is given what the file holds when it is read.
Download(s) ==
    /\ pc[s] = "saved"
    /\ file.exists
    /\ ui' = [ui EXCEPT ![s] = @ \o << "success", "download_button" >>]
    /\ run' = [run EXCEPT ![s].offered = file]
    /\ pc' = [pc EXCEPT ![s] = "done"]
    /\ UNCHANGED << san, disk, cache, file, clicked, df, word_freq, pdf >>

\* the environment puts readable CSV files in place of missing or malformed ones
RepairFiles ==
    /\ ~(disk.A.ok /\ disk.B.ok)
    /\ disk' = [A |-> ATable(3, 0), B |-> BTable(3, 0)]
    /\ UNCHANGED << san, cache, file, pc, clicked, ui, df, word_freq, pdf, run >>

SanIdle == [x |-> NoneVal, out |-> Return(<< >>), again |-> Return(<< >>), pc |-> "off"]

Init == MainInit /\ san = SanIdle

Next ==
    \/ RepairFiles
    \/ \E s \in Sessions :
        \/ StartRun(s)
        \/ LoadData(s)
        \/ Preview(s)
        \/ Cover(s)
        \/ Summary(s)
        \/ WordFrequency(s)
        \/ Appendix(s)
        \/ Output(s)
        \/ OutputWrite(s)
        \/ Download(s)

Spec == Init /\ [][Next]_vars

----------------------------------------------------------------------------
(* Exercising the sanitizer on bounded inputs *)

MaxLen == 3
MaxInt == 2

SanAlphabet ==
    { Rupee, EnDash, EmDash, RightSingleQuote, LeftSingleQuote, LeftDoubleQuote,
      RightDoubleQuote, 82, 45, 255, 256, 20013 }

SanTexts == UNION { [1..n -> SanAlphabet] : n \in 0..MaxLen }

SanInputs ==
    { StrVal(s) : s \in SanTexts } \cup { IntVal(n) : n \in 0..MaxInt }
        \cup { FloatVal(n) : n \in 0..MaxInt }
        \cup { NanVal, NoneVal, ListVal }

NoResult == [raised |-> FALSE, val |-> << -1 >>]

SanMainInit ==
    /\ MainInit
    /\ disk = [A |-> Unreadable, B |-> Unreadable]

SanInit ==
    /\ SanMainInit
    /\ san \in { [x |-> x, out |-> NoResult, again |-> NoResult, pc |-> "call"] : x \in SanInputs }

\* out = sanitize_text(x)
SanCall ==
    /\ san.pc = "call"
    /\ san' = [san EXCEPT !.out = sanitize_text(san.x), !.pc = "again"]
    /\ UNCHANGED mainVars

\* again = sanitize_text(out), when the first call returned
SanAgain ==
    /\ san.pc = "again"
    /\ ~san.out.raised
    /\ san' = [san EXCEPT !.again = sanitize_text(StrVal(san.out.val)), !.pc = "done"]
    /\ UNCHANGED mainVars

SanNext == SanCall \/ SanAgain

SanSpec == SanInit /\ [][SanNext]_vars

----------------------------------------------------------------------------
(* Properties of the sanitizer (checked under SanSpec) *)

SanReturned == san.pc # "call"

\* C1: for every text input s, every character of sanitize_text(s) has a code
\* point in 0..255.
C1_OutputIsLatin1 ==
    (SanReturned /\ isinstance_str(san.x))
        => \A i \in 1..Len(san.out.val) : san.out.val[i] \in 0..255

\* a text holding an unencodable character next to a surviving one was sanitized
C1_Witness ==
    /\ SanReturned
    /\ isinstance_str(san.x)
    /\ \E i \in 1..Len(san.x.s) : san.x.s[i] = 20013
    /\ \E i \in 1..Len(san.x.s) : san.x.s[i] = 256
    /\ san.out.val = << 255 >>

\* C2: sanitize_text is total: every input that is not text yields the empty
\* string, and no input of any type makes it raise.
C2_TotalAndEmptyOnNonText ==
    SanReturned =>
        /\ ~san.out.raised
        /\ ~isinstance_str(san.x) => san.out = Return(<< >>)

\* NaN was passed and the empty string came back
C2_Witness ==
    /\ SanReturned
    /\ san.x = NanVal
    /\ san.out = Return(<< >>)

\* the reference scan: what one input character contributes to the result
RefChar(c) ==
    IF c = Rupee THEN << 82, 115 >>
    ELSE IF c \in { EnDash, EmDash } THEN << 45 >>
    ELSE IF c \in { LeftSingleQuote, RightSingleQuote } THEN << 39 >>
    ELSE IF c \in { LeftDoubleQuote, RightDoubleQuote } THEN << 34 >>
    ELSE IF c <= 255 THEN << c >>
    ELSE << >>

RECURSIVE RefScan(_)
RefScan(s) == IF s = << >> THEN << >> ELSE RefChar(Head(s)) \o RefScan(Tail(s))

\* C3: for every text input s, sanitize_text(s) equals the left-to-right
\* per-character reference scan (Rs for the rupee sign, - for the dashes, ' and "
\* for the curly quotes, code points <= 255 unchanged, everything else dropped
\* without a placeholder, order kept); the empty string maps to the empty string.
C3_EqualsReferenceScan ==
    (SanReturned /\ isinstance_str(san.x))
        => /\ san.out = Return(RefScan(san.x.s))
           /\ san.x.s = << >> => san.out.val = << >>
           /\ (\A i \in 1..Len(san.x.s) : san.x.s[i] \in { 256, 20013 })
                  => san.out.val = << >>

\* a rupee sign, an ideograph and a Latin-1 character, in that order
C3_Witness ==
    /\ SanReturned
    /\ san.x = StrVal(<< Rupee, 20013, 255 >>)
    /\ san.out.val = << 82, 115, 255 >>

Triggers == { replacements[i][1] : i \in 1..Len(replacements) }

Reversed(table) == [i \in 1..Len(table) |-> table[Len(table) + 1 - i]]

Rotated(table, k) == [i \in 1..Len(table) |-> table[((i + k - 1) % Len(table)) + 1]]

SanitizeWithOrder(s, table) ==
    Latin1Decode(Latin1EncodeIgnore(ApplyReplacements(s, table, 1)))

\* C4: sanitize_text is idempotent: sanitizing its result changes nothing; no
\* character of the result triggers a substitution or the drop filter, and the
\* result is the same when the seven rules are applied in another order.
C4_Idempotent ==
    /\ (san.pc = "done" /\ isinstance_str(san.x)) => san.again = san.out
    /\ (SanReturned /\ isinstance_str(san.x)) =>
          /\ \A i \in 1..Len(san.out.val) :
                san.out.val[i] \notin Triggers /\ san.out.val[i] <= 255
          /\ SanitizeWithOrder(san.x.s, Reversed(replacements)) = san.out.val
          /\ \A k \in 1..Len(replacements) :
                SanitizeWithOrder(san.x.s, Rotated(replacements, k)) = san.out.val

\* a text that the first pass changed was sanitized twice
C4_Witness ==
    /\ san.pc = "done"
    /\ san.x = StrVal(<< LeftDoubleQuote, 255, EmDash >>)
    /\ san.out.val = << 34, 255, 45 >>
    /\ san.again = san.out

----------------------------------------------------------------------------
(* Properties of the script and the renderer (checked under Spec) *)

Ops(s) == pdf[s].ops

IsDraw(o) == o.op \in { "cell", "multi_cell" }

\* the handler has drawn all four sections without raising
RenderComplete(s) == pc[s] \in { "output", "writing", "saved" } \/ (pc[s] = "done" /\ clicked[s])

\* the reference sanitizer applied to a cell value of any type
RefSanitize(v) == IF v.t = "str" THEN RefScan(v.s) ELSE << >>

\* C5: in every render, for any dataset contents, every string handed to a draw
\* operation contains only code points 0..255, so that no encoding failure
\* happens during text placement.
C5_OnlyLatin1ReachesDraw ==
    \A s \in Sessions :
        /\ \A i \in 1..Len(Ops(s)) :
              IsDraw(Ops(s)[i]) => Encodable(Ops(s)[i].text) /\ Ops(s)[i].ok
        /\ pdf[s].err # "encoding"

\* the run's datasets are missing or malformed: a file could not be read, or a
\* table came without a column the report needs
InputFailure(s) ==
    \/ run[s].loadFailed
    \/ /\ run[s].loads > 0
       /\ \/ "title" \notin df[s].columns
          \/ ~({ "word", "frequency" } \subseteq word_freq[s].columns)

NothingButTheError(s) ==
    /\ pc[s] = "stopped"
    /\ ui[s] = << "title", "write", "error" >>
    /\ ~Shown(s, "button") /\ ~Shown(s, "preview_df") /\ ~Shown(s, "download_button")
    /\ pdf[s] = NewPDF
    /\ ~run[s].wrote
    /\ ~run[s].offered.exists
    /\ run[s].loads = 1

\* C6: if loading either dataset fails (file missing or malformed), that run
\* shows an error and nothing else: no preview, no generate control, no draw
\* operation, no write of the output file, no download control, and a single
\* load attempt.
C6_LoadFailureStopsRun ==
    \A s \in Sessions : InputFailure(s) => NothingButTheError(s)

\* what the script does guarantee: a run whose read_csv raised shows the error
\* and stops
ReadErrorStopsRun ==
    \A s \in Sessions : run[s].loadFailed => NothingButTheError(s)

TableCells(s) ==
    SelectSeq(Ops(s), LAMBDA o : o.by = "table" /\ o.role \in { "word", "frequency" } /\ o.ok)

\* the cells the claim expects: record i of dataset B gives cells 2i-1 and 2i
ExpectedCell(s, k) ==
    LET rec == IterRow(word_freq[s], (k + 1) \div 2)
    IN  IF k % 2 = 1 THEN [role |-> "word", text |-> RefSanitize(rec.word)]
        ELSE [role |-> "frequency", text |-> Str(rec.frequency)]

TablePageClosed(s) == \E i \in 1..Len(Ops(s)) : Ops(s)[i].op = "add_page" /\ Ops(s)[i].by = "appendix"

\* C7: on the word-frequency page, after the header row, exactly min(20, N) data
\* rows are drawn; row i shows record i of dataset B with its word sanitized and
\* its frequency as a string; no record beyond the 20th is ever drawn.
C7_TableShowsFirstTwenty ==
    \A s \in Sessions :
        LET cells == TableCells(s)
            n == Len(word_freq[s].rows)
            m == IF n < 20 THEN n ELSE 20
        IN  /\ Len(cells) <= 2 * m
            /\ \A k \in 1..Len(cells) :
                  /\ cells[k].role = ExpectedCell(s, k).role
                  /\ cells[k].text = ExpectedCell(s, k).text
                  /\ cells[k].page = 3
            /\ \A i, j \in 1..Len(Ops(s)) :
                  (Ops(s)[i].role = "colhead" /\ Ops(s)[j].role \in { "word", "frequency" })
                      => i < j
            /\ TablePageClosed(s) => Len(cells) = 2 * m

\* the table page of a dataset B with more than 20 records is finished
C7_Witness ==
    /\ TablePageClosed(1)
    /\ Len(word_freq[1].rows) > 20
    /\ Len(TableCells(1)) = 40
    /\ TableCells(1)[7].text = << 34, 97, 34 >>
    /\ TableCells(1)[40].text = DecStr(60)

AppendixEntryOps(s) == SelectSeq(Ops(s), LAMBDA o : o.role = "entry")

SummaryOps(s) == SelectSeq(Ops(s), LAMBDA o : o.by = "summary" /\ o.role = "paragraph")

\* C8: in every successful render the appendix holds one entry per record of
\* dataset A, in order, entry i being "- " followed by the sanitized title (the
\* bare prefix for a non-text title), and the number of entries is the article
\* count shown in the executive summary.
C8_AppendixListsEveryTitle ==
    \A s \in Sessions :
        RenderComplete(s) =>
            LET entries == AppendixEntryOps(s)
            IN  /\ Len(entries) = Len(df[s].rows)
                /\ \A i \in 1..Len(entries) :
                      /\ entries[i].text = << 45, 32 >> \o RefSanitize(df[s].rows[i].title)
                      /\ entries[i].ok /\ entries[i].by = "appendix"
                /\ Len(SummaryOps(s)) = 1
                /\ SummaryOps(s)[1].text = SummaryPrefix \o DecStr(Len(entries)) \o SummaryRest

\* a finished render of a dataset A with more titles than the preview shows,
\* among them a non-text title and one with an em dash and a rupee sign
C8_Witness ==
    /\ RenderComplete(1)
    /\ Len(df[1].rows) > 5
    /\ \E i \in 1..Len(df[1].rows) :
          df[1].rows[i].title = NanVal /\ AppendixEntryOps(1)[i].text = << 45, 32 >>
    /\ \E i \in 1..Len(df[1].rows) :
          AppendixEntryOps(1)[i].text = << 45, 32, 97, 45, 82, 115 >>

ExplicitPages(s) == SelectSeq(Ops(s), LAMBDA o : o.op = "add_page" /\ ~o.auto)

AutoPages(s) == SelectSeq(Ops(s), LAMBDA o : o.op = "add_page" /\ o.auto)

SectionOrder == << "cover", "summary", "table", "appendix" >>

SectionIndex(name) == CHOOSE k \in 1..4 : SectionOrder[k] = name

\* the position in ops of the explicit page start of section k (0 when absent)
PageStartAt(s, k) ==
    LET at == { i \in 1..Len(Ops(s)) :
                   Ops(s)[i].op = "add_page" /\ ~Ops(s)[i].auto /\ Ops(s)[i].by = SectionOrder[k] }
    IN  IF at = { } THEN 0 ELSE CHOOSE i \in at : TRUE

\* every section's content lies after its page start and before the next one's
ContentWithinSections(s) ==
    \A i \in 1..Len(Ops(s)) :
        LET o == Ops(s)[i]
        IN  (IsDraw(o) /\ o.by \in { "cover", "summary", "table", "appendix" }) =>
                LET k == SectionIndex(o.by)
                IN  /\ PageStartAt(s, k) > 0 /\ PageStartAt(s, k) < i
                    /\ k < 4 => (PageStartAt(s, k + 1) = 0 \/ i < PageStartAt(s, k + 1))

\* the file is written after the appendix, the download offered after the write
WriteThenDownload(s) ==
    /\ (pc[s] = "writing" \/ run[s].wrote) => PageStartAt(s, 4) > 0 /\ ~Failed(pdf[s])
    /\ run[s].wrote => pc[s] \in { "saved", "done" }
    /\ Shown(s, "download_button") => run[s].wrote /\ run[s].offered.exists
    /\ run[s].offered.exists => run[s].wrote

\* the lines the appendix entries take at the appendix font size
RECURSIVE EntryLines(_, _)
EntryLines(entries, i) ==
    IF i > Len(entries) THEN 0
    ELSE CountLines(entries[i].text, 10) + EntryLines(entries, i + 1)

AppendixLines(s) == EntryLines(AppendixEntryOps(s), 1)

\* C9 as claimed: every successful render, whatever the datasets hold, has
\* exactly four pages.
C9_AlwaysFourPages ==
    \A s \in Sessions : RenderComplete(s) => pdf[s].page = 4

\* C9 as amended: every successful render starts the four sections in the order
\* cover, summary, word-frequency table, appendix, each on its own new page
\* (pages 1 to 4), with a section's content between its page start and the
\* next; the document has four pages when the appendix entries fit on the
\* appendix page and otherwise one more page for every automatic page break,
\* all of them inside the appendix; the file is written only after the appendix
\* and the download control is shown only after the write.
C9_FourSectionsInOrder ==
    \A s \in Sessions :
        /\ ContentWithinSections(s)
        /\ WriteThenDownload(s)
        /\ \A i \in 1..Len(AutoPages(s)) : AutoPages(s)[i].by = "appendix"
        /\ \A i \in 1..Len(ExplicitPages(s)) :
              ExplicitPages(s)[i].by = SectionOrder[i] /\ ExplicitPages(s)[i].page = i
        /\ RenderComplete(s) =>
              /\ Len(ExplicitPages(s)) = 4
              /\ pdf[s].page = 4 + Len(AutoPages(s))
              /\ AppendixLines(s) <= FirstPageEntries => pdf[s].page = 4
              /\ AppendixLines(s) > FirstPageEntries => pdf[s].page > 4

\* a finished four-page render whose file was written and offered
C9_Witness ==
    /\ pc[1] = "done" /\ clicked[1]
    /\ pdf[1].page = 4
    /\ Len(df[1].rows) = FirstPageEntries
    /\ Shown(1, "download_button")
    /\ run[1].offered.exists

\* C10: when several sessions generate at once, each render's output is kept
\* apart, so what a session is offered for download is the complete file of its
\* own render.
C10_DownloadIsOwnCompleteRender ==
    \A s \in Sessions :
        run[s].offered.exists => run[s].offered.owner = s /\ run[s].offered.complete

====
